---- MODULE Spec2Model ----
(***************************************************************************)
(* State-machine model of server.py, the PDF page server: the session     *)
(* table, the document cache, the per-session page directories, the       *)
(* socket event handlers (one thread per connection) and the background   *)
(* cleanup sweep (one thread).  Handlers are split where the code blocks   *)
(* in a library call (fitz.open, the file write), so that the threads of   *)
(* async_mode='threading' interleave there.                                *)
(* Spec is the server. SpecRender looks at the size of the image           *)
(* render_page makes for the options of an event, SpecPersist at the bytes *)
(* of one page file under concurrent save_page_image calls.                *)
(***************************************************************************)
EXTENDS Integers, Sequences, FiniteSets, TLC

\* ------------------------------------------------------------- bounds
\* Clock readings are sampled every TickSeconds; the clock stops after MaxTicks.
MaxTicks == 2

\* ---------------------------------------------------------- constants
\* timeout = 30 * 60 (cleanup_old_sessions)
Timeout == 1800
\* The sampling step of the clock: a session is seen inside the window (age 0),
\* exactly on its edge (age Timeout) and past it.
TickSeconds == Timeout

\* Client connections (socket.io clients).
Conns == {"c1", "c2"}
\* os.urandom(4).hex(): the random suffixes of session tokens, FirstRand the one
\* a connect draws when no token of its second is in use.
FirstRand == "a3f1"
Rand == {FirstRand, "77c0"}
\* pdfId values a client sends: a 3-page document, a file fitz cannot open, and
\* an id with no file under pdfs/.
PdfIds == {"sample", "corrupt", "missing"}
\* pageNum values a client sends.
PageNums == {0, 1, 4}
\* pageNums lists of a preloadPages event: one page, and a list with numbers out
\* of range on both sides and a page named twice.
PageLists == {<<1>>, <<4, 1, 0, 1>>}

None == <<"None">>
\* A connection that has disconnected (a client that comes back is a new connection).
Closed == <<"closed">>
NoDoc == [document |-> <<>>, total_pages |-> 0]
NoPageData == [event |-> "none"]
NoSaves == [w \in {} |-> NoPageData]
NoFile == [exists |-> FALSE, bytes |-> <<>>]

VARIABLES
    now,        \* time.time(), in seconds
    sessions,   \* the sessions dict, in insertion order: a sequence of records
    pdf_cache,  \* the pdf_cache dict: path -> pdf_info, NoDoc where absent
    opens,      \* path -> number of documents fitz.open has returned for it
    dirs,       \* the session directories that exist under temp_pages/
    files,      \* the page files that exist: <<session_id, page_num>>
    conn,       \* connection -> None before it connects, then the token its
                \* 'connected' event carried, then Closed
    pc,         \* connection -> where its handler thread stands
    sweep,      \* the cleanup thread: where it stands, current_time, the items
                \* of its list and the index of the one the loop is at
    step,       \* the step just taken: what it emitted, the pages it passed to
                \* render_page; NoStep once Observe has taken note of it
    loaded,     \* the connections whose loadPDF was answered with success: true
    page_data,  \* the image an event was rendered to: its options, the quality,
                \* zoom and target size taken, the pixmap's and the image's size
    saves,      \* save_page_image calls at work on one page file: call -> where
                \* it stands and its image_data
    page_file   \* that page file: whether it exists, and its bytes

\* The variables of the server: the handlers and the cleanup thread.
server_vars == <<now, sessions, pdf_cache, opens, dirs, files, conn, pc, sweep, step, loaded>>

\* The variables of render_page's image and of save_page_image's file, looked at
\* on their own in SpecRender and SpecPersist.
image_vars == <<page_data, saves, page_file>>

vars == <<server_vars, image_vars>>

\* --------------------------------------------------------- the file system
\* str(PDF_DIR / f"{pdf_id}.pdf")
PathOf(pdf_id) == <<"pdfs", pdf_id, ".pdf">>

Paths == {PathOf(i) : i \in PdfIds}

\* os.path.exists(pdf_path)
Exists(path) == path \in {PathOf("sample"), PathOf("corrupt")}

\* Whether fitz.open(pdf_path) returns a document (it raises otherwise).
Opens(path) == path = PathOf("sample")

\* doc.page_count
PageCount(path) == IF path = PathOf("sample") THEN 3 ELSE 0

\* --------------------------------------------------------- the session table
Idle == [at |-> "idle"]
NoEmit == [ev |-> "none"]
NoStep == [emit |-> NoEmit, render |-> <<>>]
SweepIdle == [at |-> "idle", current_time |-> 0, items |-> <<>>, i |-> 0]

Sids(tab) == {tab[i].sid : i \in 1..Len(tab)}

IndexOf(tab, sid) == CHOOSE i \in 1..Len(tab) : tab[i].sid = sid

\* sessions[session_id] = record: a new key is appended, an existing key keeps
\* its place and gets the new record.
PutSession(tab, sid, rec) ==
    IF sid \in Sids(tab)
    THEN [tab EXCEPT ![IndexOf(tab, sid)] = rec]
    ELSE Append(tab, rec)

\* del sessions[session_id]
DelSession(tab, sid) == SelectSeq(tab, LAMBDA r : r.sid # sid)

\* f"session_{int(time.time())}_{os.urandom(4).hex()}"
Token(t, r) == <<"session", t, r>>

Emit(e) == [emit |-> e, render |-> <<>>]

NoSession == [sid |-> None, current_pdf |-> None, last_activity |-> 0]

\* next((s for s in sessions.values() if s.get('sid')), None): every record's
\* sid is a non-empty string, so this is the first record of the table.
FirstSession(tab) == IF tab = <<>> THEN NoSession ELSE tab[1]

\* session_data = next(...); if session_data: session_data['current_pdf'] = pdf_path
StoreInSession(tab, path) ==
    IF FirstSession(tab) = NoSession
    THEN tab
    ELSE [tab EXCEPT ![1].current_pdf = path]

\* --------------------------------------------------------- PDFProcessor
\* pdf_path in pdf_cache
Cached(cache, path) == cache[path] # NoDoc

\* pdf_cache[pdf_path] = pdf_info
CacheInsert(cache, path, info) == [cache EXCEPT ![path] = info]

\* load_pdf leaving an entry behind when fitz.open raised: the insertion moved
\* before the open.
load_pdf_miss_caches_failure(cache, ops, path) ==
    LET info == [document |-> <<path, ops[path] + 1>>, total_pages |-> PageCount(path)]
    IN [raised |-> ~Opens(path), info |-> info,
        cache |-> CacheInsert(cache, path, info),
        opens |-> IF Opens(path) THEN [ops EXCEPT ![path] = @ + 1] ELSE ops]

\* load_pdf past the cache test: fitz.open, the metadata, the insertion. The
\* k-th document fitz.open returns for a path is a handle of its own.
load_pdf_miss(cache, ops, path) ==
    IF Opens(path)
    THEN LET info == [document |-> <<path, ops[path] + 1>>,
                      total_pages |-> PageCount(path)]
         IN [raised |-> FALSE, info |-> info,
             cache |-> CacheInsert(cache, path, info),
             opens |-> [ops EXCEPT ![path] = @ + 1]]
    ELSE [raised |-> TRUE, info |-> NoDoc, cache |-> cache, opens |-> ops]

\* load_pdf without its cache test: every call opens the file.
load_pdf_reopens(cache, ops, path) == load_pdf_miss(cache, ops, path)

\* load_pdf run in one piece
load_pdf(cache, ops, path) ==
    IF Cached(cache, path)
    THEN [raised |-> FALSE, info |-> cache[path], cache |-> cache, opens |-> ops]
    ELSE load_pdf_miss(cache, ops, path)

\* doc.load_page(page_id) of PyMuPDF: page_id >= page_count raises, a negative
\* page_id counts back from the end (page_count is added until it is >= 0).
\* The result is the 1-based number of the page loaded, 0 when it raises.
load_page(total, page_id) ==
    IF total = 0 \/ page_id >= total THEN 0 ELSE (page_id % total) + 1

\* render_page(doc, page_num): raised, or the page data. raster is whether
\* get_pixmap / Image / save went through.
render_page(info, page_num, raster) ==
    LET shown == load_page(info.total_pages, page_num - 1) IN
    [raised |-> shown = 0 \/ ~raster, page_num |-> page_num, shown |-> shown]


Init ==
    /\ now = 0
    /\ sessions = <<>>
    /\ pdf_cache = [p \in Paths |-> NoDoc]
    /\ opens = [p \in Paths |-> 0]
    /\ dirs = {}
    /\ files = {}
    /\ conn = [c \in Conns |-> None]
    /\ pc = [c \in Conns |-> Idle]
    /\ sweep = SweepIdle
    /\ step = NoStep
    /\ loaded = {}
    /\ page_data = NoPageData
    /\ saves = NoSaves
    /\ page_file = NoFile

\* No record of a step stands: the threads move.
Quiet == step = NoStep

\* Connection c is connected and its handler thread is free for the next event.
Ready(c) == Quiet /\ conn[c] \notin {None, Closed} /\ pc[c] = Idle

\* The record of the step just taken is taken note of.
Observe ==
    /\ step # NoStep
    /\ step' = NoStep
    /\ UNCHANGED <<now, sessions, pdf_cache, opens, dirs, files, conn, pc, sweep, loaded>>
    /\ UNCHANGED image_vars

\* The clock advances.
Tick ==
    /\ Quiet
    /\ now < MaxTicks * TickSeconds
    /\ now' = now + TickSeconds
    /\ step' = NoStep
    /\ UNCHANGED <<sessions, pdf_cache, opens, dirs, files, conn, pc, sweep, loaded>>
    /\ UNCHANGED image_vars

\* ------------------------------------------------------ the event handlers
\* A token something in the state still names.
InUse(sid) ==
    \/ sid \in Sids(sessions) \cup dirs
    \/ \E d \in Conns : conn[d] = sid \/ (pc[d].at = "save" /\ pc[d].sid = sid)
    \/ \E i \in 1..Len(sweep.items) : sweep.items[i].sid = sid

\* The suffixes os.urandom may draw at this second, up to renaming: one whose
\* token is in use (a collision), or the first of those that are not (suffixes
\* nothing names are interchangeable).
Draws(r) == InUse(Token(now, r)) \/ r = FirstRand \/ InUse(Token(now, FirstRand))

handle_connect(c, r) ==
    LET sid == Token(now, r) IN
    /\ Quiet
    /\ Draws(r)
    /\ conn[c] = None
    /\ sessions' = PutSession(sessions, sid,
                      [sid |-> sid, current_pdf |-> None, last_activity |-> now])
    /\ conn' = [conn EXCEPT ![c] = sid]
    /\ loaded' = loaded \ {c}
    /\ step' = Emit([ev |-> "connected", to |-> c, session_id |-> sid])
    /\ UNCHANGED <<now, pdf_cache, opens, dirs, files, pc, sweep>>
    /\ UNCHANGED image_vars

\* A disconnect that drops the connection's session record.
handle_disconnect_drops(c) ==
    /\ Ready(c)
    /\ conn' = [conn EXCEPT ![c] = Closed]
    /\ sessions' = DelSession(sessions, conn[c])
    /\ loaded' = loaded \ {c}
    /\ step' = NoStep
    /\ UNCHANGED <<now, pdf_cache, opens, dirs, files, pc, sweep>>
    /\ UNCHANGED image_vars

handle_disconnect(c) ==
    /\ Ready(c)
    /\ conn' = [conn EXCEPT ![c] = Closed]
    /\ loaded' = loaded \ {c}
    /\ step' = NoStep
    /\ UNCHANGED <<now, sessions, pdf_cache, opens, dirs, files, pc, sweep>>
    /\ UNCHANGED image_vars

PdfLoadedOk(c, path, info) ==
    [ev |-> "pdfLoaded", to |-> c, success |-> TRUE, path |-> path,
     totalPages |-> info.total_pages, document |-> info.document]

PdfLoadedError(c, path, error) ==
    [ev |-> "pdfLoaded", to |-> c, success |-> FALSE, path |-> path, error |-> error]

\* The session stored before load_pdf's outcome is looked at: a load that raised
\* binds the session all the same.
LoadReturnedStoresFirst(c, path, res) ==
    /\ sessions' = StoreInSession(sessions, path)
    /\ IF res.raised
       THEN /\ step' = Emit(PdfLoadedError(c, path, "exception"))
            /\ UNCHANGED loaded
       ELSE /\ loaded' = loaded \cup {c}
            /\ step' = Emit(PdfLoadedOk(c, path, res.info))

\* handle_load_pdf from load_pdf's return on: the session is bound, the answer sent.
LoadReturned(c, path, res) ==
    IF res.raised
    THEN /\ step' = Emit(PdfLoadedError(c, path, "exception"))
         /\ UNCHANGED <<sessions, loaded>>
    ELSE /\ sessions' = StoreInSession(sessions, path)
         /\ loaded' = loaded \cup {c}
         /\ step' = Emit(PdfLoadedOk(c, path, res.info))

\* handle_load_pdf up to fitz.open: the file test, load_pdf's cache test and,
\* on a hit, the rest of the handler.
handle_load_pdf(c, pdf_id) ==
    LET path == PathOf(pdf_id) IN
    /\ Ready(c)
    /\ IF ~Exists(path)
       THEN /\ step' = Emit(PdfLoadedError(c, path, "PDF file not found"))
            /\ UNCHANGED <<sessions, loaded, pc>>
       ELSE IF Cached(pdf_cache, path)
       THEN /\ LoadReturned(c, path, load_pdf(pdf_cache, opens, path))
            /\ UNCHANGED pc
       ELSE /\ pc' = [pc EXCEPT ![c] = [at |-> "open", path |-> path]]
            /\ step' = NoStep
            /\ UNCHANGED <<sessions, loaded>>
    /\ UNCHANGED <<now, pdf_cache, opens, dirs, files, conn, sweep>>
    /\ UNCHANGED image_vars

\* handle_load_pdf once fitz.open has returned or raised: load_pdf's insertion
\* and the rest of the handler.
load_pdf_opened(c) ==
    /\ Quiet
    /\ pc[c].at = "open"
    /\ LET path == pc[c].path
           res == load_pdf_miss(pdf_cache, opens, path)
       IN /\ pdf_cache' = res.cache
          /\ opens' = res.opens
          /\ LoadReturned(c, path, res)
    /\ pc' = [pc EXCEPT ![c] = Idle]
    /\ UNCHANGED <<now, dirs, files, conn, sweep>>
    /\ UNCHANGED image_vars

\* The session a handler works for has a document: not (not session_data or
\* not session_data.get('current_pdf')).
HasPdf(s) == s # NoSession /\ s.current_pdf # None

PageError(c, ev, error) == [ev |-> ev, to |-> c, error |-> error]

\* handle_request_page up to save_page_image: the session lookup, load_pdf
\* and render_page.
handle_request_page(c, page_num, raster) ==
    LET s == FirstSession(sessions) IN
    /\ Ready(c)
    /\ IF ~HasPdf(s)
       THEN /\ step' = Emit(PageError(c, "pageData", "No PDF loaded"))
            /\ UNCHANGED <<pdf_cache, opens, pc>>
       ELSE LET res == load_pdf(pdf_cache, opens, s.current_pdf)
                page == render_page(res.info, page_num, raster)
            IN /\ pdf_cache' = res.cache
               /\ opens' = res.opens
               /\ IF res.raised
                  THEN /\ step' = Emit(PageError(c, "pageData", "exception"))
                       /\ UNCHANGED pc
                  ELSE IF page.raised
                  THEN /\ step' = [emit |-> PageError(c, "pageData", "exception"),
                                   render |-> <<page_num>>]
                       /\ UNCHANGED pc
                  ELSE /\ step' = [emit |-> NoEmit, render |-> <<page_num>>]
                       /\ pc' = [pc EXCEPT ![c] = [at |-> "save", sid |-> s.sid,
                                                   page_num |-> page_num]]
    /\ UNCHANGED <<now, sessions, dirs, files, conn, sweep, loaded>>
    /\ UNCHANGED image_vars

\* What save_page_image may raise at: nothing, session_dir.mkdir, or the write
\* into the file open() has made.
SaveOutcomes == {"saved", "mkdir raised", "write raised"}

\* handle_request_page from save_page_image on: the directory is made, the
\* file written, the answer sent; an exception is answered by the except clause.
save_page_image(c, outcome) ==
    /\ Quiet
    /\ pc[c].at = "save"
    /\ dirs' = IF outcome = "mkdir raised" THEN dirs ELSE dirs \cup {pc[c].sid}
    /\ files' = IF outcome = "mkdir raised" THEN files
                ELSE files \cup {<<pc[c].sid, pc[c].page_num>>}
    /\ step' = IF outcome = "saved"
               THEN Emit([ev |-> "pageData", to |-> c, pageNum |-> pc[c].page_num,
                          sid |-> pc[c].sid])
               ELSE Emit(PageError(c, "pageData", "exception"))
    /\ pc' = [pc EXCEPT ![c] = Idle]
    /\ UNCHANGED <<now, sessions, pdf_cache, opens, conn, sweep, loaded>>
    /\ UNCHANGED image_vars

\* The range test with 0 for its lower end.
InRangeFromZero(page_nums, total) == SelectSeq(page_nums, LAMBDA n : 0 <= n /\ n <= total)

\* The page numbers of a preloadPages list that pass 1 <= page_num <= total_pages.
InRange(page_nums, total) == SelectSeq(page_nums, LAMBDA n : 1 <= n /\ n <= total)

SeqRange(q) == {q[i] : i \in 1..Len(q)}

\* handle_preload_pages. failAt = 0: every render and save goes through;
\* failAt = k: the k-th render raises, after the pages before it were rendered
\* and saved. The record of the step keeps the pageNums list the answer is for
\* (the event itself carries pages only).
handle_preload_pages(c, page_nums, failAt) ==
    LET s == FirstSession(sessions) IN
    /\ Ready(c)
    /\ IF ~HasPdf(s)
       THEN /\ failAt = 0
            /\ step' = Emit(PageError(c, "pagesPreloaded", "No PDF loaded"))
            /\ UNCHANGED <<pdf_cache, opens, dirs, files>>
       ELSE LET res == load_pdf(pdf_cache, opens, s.current_pdf)
                todo == InRange(page_nums, res.info.total_pages)
                done == IF failAt = 0 THEN todo ELSE SubSeq(todo, 1, failAt - 1)
            IN /\ failAt <= Len(todo)
               /\ pdf_cache' = res.cache
               /\ opens' = res.opens
               /\ IF res.raised
                  THEN /\ step' = Emit(PageError(c, "pagesPreloaded", "exception"))
                       /\ UNCHANGED <<dirs, files>>
                  ELSE /\ dirs' = IF done = <<>> THEN dirs ELSE dirs \cup {s.sid}
                       /\ files' = files \cup {<<s.sid, n>> : n \in SeqRange(done)}
                       /\ step' = [emit |-> IF failAt = 0
                                            THEN [ev |-> "pagesPreloaded", to |-> c,
                                                  pages |-> done, sid |-> s.sid,
                                                  pageNums |-> page_nums]
                                            ELSE PageError(c, "pagesPreloaded", "exception"),
                                   render |-> IF failAt = 0 THEN todo
                                              ELSE SubSeq(todo, 1, failAt)]
    /\ UNCHANGED <<now, sessions, conn, pc, sweep, loaded>>
    /\ UNCHANGED image_vars

handle_ping(c) ==
    /\ Ready(c)
    /\ step' = Emit([ev |-> "pong", to |-> c, timestamp |-> now])
    /\ UNCHANGED <<now, sessions, pdf_cache, opens, dirs, files, conn, pc, sweep, loaded>>
    /\ UNCHANGED image_vars

\* ------------------------------------------------------ the cleanup thread
\* The cleanup thread once the head item is done with: on to the next item, or
\* cleanup_old_sessions returns.
NextItem(sw) ==
    IF sw.i >= Len(sw.items) THEN SweepIdle ELSE [sw EXCEPT !.at = "loop", !.i = @ + 1]

\* The item the loop is at.
Item(sw) == sw.items[sw.i]

\* The timeout test with >= for >: a session exactly 30 minutes old is swept.
ExpiredAtEdge(current_time, last_activity) == current_time - last_activity >= Timeout

\* current_time - session_data['last_activity'] > timeout
Expired(current_time, last_activity) == current_time - last_activity > Timeout

\* The items of list(sessions.items()): the key and the record's last_activity.
Items(tab) == [i \in 1..Len(tab) |->
                 [sid |-> tab[i].sid, last_activity |-> tab[i].last_activity]]

\* current_time = time.time()
cleanup_read_clock ==
    /\ Quiet
    /\ sweep.at = "idle"
    /\ sweep' = [SweepIdle EXCEPT !.at = "list", !.current_time = now]
    /\ step' = NoStep
    /\ UNCHANGED <<now, sessions, pdf_cache, opens, dirs, files, conn, pc, loaded>>
    /\ UNCHANGED image_vars

\* list(sessions.items())
cleanup_list ==
    /\ Quiet
    /\ sweep.at = "list"
    /\ sweep' = IF sessions = <<>> THEN SweepIdle
                ELSE [sweep EXCEPT !.at = "loop", !.items = Items(sessions), !.i = 1]
    /\ step' = NoStep
    /\ UNCHANGED <<now, sessions, pdf_cache, opens, dirs, files, conn, pc, loaded>>
    /\ UNCHANGED image_vars

\* One turn of the loop up to the removal: the timeout test and session_dir.exists().
cleanup_check ==
    /\ Quiet
    /\ sweep.at = "loop"
    /\ LET item == Item(sweep) IN
       sweep' = IF ~Expired(sweep.current_time, item.last_activity)
                THEN NextItem(sweep)
                ELSE IF item.sid \in dirs
                THEN [sweep EXCEPT !.at = "rmtree"]
                ELSE [sweep EXCEPT !.at = "del"]
    /\ step' = NoStep
    /\ UNCHANGED <<now, sessions, pdf_cache, opens, dirs, files, conn, pc, loaded>>
    /\ UNCHANGED image_vars

\* shutil.rmtree(session_dir): the directory and its files go, or it raises and
\* the except clause around the loop ends the sweep.
cleanup_rmtree(ok) ==
    /\ Quiet
    /\ sweep.at = "rmtree"
    /\ LET sid == Item(sweep).sid IN
       IF ok
       THEN /\ dirs' = dirs \ {sid}
            /\ files' = {f \in files : f[1] # sid}
            /\ sweep' = [sweep EXCEPT !.at = "del"]
       ELSE /\ sweep' = SweepIdle
            /\ UNCHANGED <<dirs, files>>
    /\ step' = NoStep
    /\ UNCHANGED <<now, sessions, pdf_cache, opens, conn, pc, loaded>>
    /\ UNCHANGED image_vars

\* del sessions[session_id]; a missing key raises and ends the sweep.
cleanup_del ==
    /\ Quiet
    /\ sweep.at = "del"
    /\ LET sid == Item(sweep).sid IN
       IF sid \in Sids(sessions)
       THEN /\ sessions' = DelSession(sessions, sid)
            /\ sweep' = NextItem(sweep)
       ELSE /\ sweep' = SweepIdle
            /\ UNCHANGED sessions
    /\ step' = NoStep
    /\ UNCHANGED <<now, pdf_cache, opens, dirs, files, conn, pc, loaded>>
    /\ UNCHANGED image_vars

Next ==
    \/ Observe
    \/ Tick
    \/ \E c \in Conns, r \in Rand : handle_connect(c, r)
    \/ \E c \in Conns : handle_disconnect(c)
    \/ \E c \in Conns, i \in PdfIds : handle_load_pdf(c, i)
    \/ \E c \in Conns : load_pdf_opened(c)
    \/ \E c \in Conns, n \in PageNums, raster \in BOOLEAN : handle_request_page(c, n, raster)
    \/ \E c \in Conns, o \in SaveOutcomes : save_page_image(c, o)
    \/ \E c \in Conns, l \in PageLists : \E k \in 0..Len(l) : handle_preload_pages(c, l, k)
    \/ \E c \in Conns : handle_ping(c)
    \/ cleanup_read_clock
    \/ cleanup_list
    \/ cleanup_check
    \/ \E ok \in BOOLEAN : cleanup_rmtree(ok)
    \/ cleanup_del

Spec == Init /\ [][Next]_vars

\* ------------------------------------------- render_page: the image's size
\* The options of a requestPage / preloadPages event: none, or a quality.
NoOptions == [k \in {} |-> ""]
Qualities == {"high", "medium", "low"}
Options == {NoOptions} \cup {[quality |-> q] : q \in Qualities}

\* Widths and heights of a page, in points.
Lengths == {1, 300, 512, 683, 792, 2000}
PageRects == Lengths \X Lengths

\* options.get(key, default)
Get(options, key, default) ==
    IF key \in DOMAIN options THEN options[key] ELSE default

\* handle_request_page: quality = options.get('quality', 'high')
request_page_quality(options) == Get(options, "quality", "high")

\* handle_preload_pages: quality = options.get('quality', 'medium')
preload_pages_quality(options) == Get(options, "quality", "medium")

\* zoom = 2.0 if quality == 'high' else 1.5, in tenths
zoom(quality) == IF quality = "high" THEN 20 ELSE 15

\* target_size = 1024 if quality == 'high' else 768
target_size(quality) == IF quality = "high" THEN 1024 ELSE 768

Ceil(num, den) == (num + den - 1) \div den

Abs(x) == IF x < 0 THEN -x ELSE x

Max(a, b) == IF a >= b THEN a ELSE b

\* page.get_pixmap(matrix=fitz.Matrix(zoom, zoom)): the page's rectangle scaled
\* by zoom and rounded out to whole pixels.
get_pixmap(rect, z) == <<Ceil(rect[1] * z, 10), Ceil(rect[2] * z, 10)>>

\* A resize to the target width whatever the image's shape and size.
thumbnail_to_width(w, h, ts) == <<ts, Max((ts * h) \div w, 1)>>

\* img.thumbnail((ts, ts)) of PIL on a w x h image: the size it leaves. An image
\* within the box is left alone; else the side with the larger overshoot is set
\* to ts and the other to floor or ceil of its scaled length, whichever keeps the
\* aspect ratio closer (floor on a tie), and to 1 at least.
thumbnail(w, h, ts) ==
    IF ts >= w /\ ts >= h THEN <<w, h>>
    ELSE IF h >= w
    THEN LET f == (ts * w) \div h
             c == Ceil(ts * w, h)
             x == IF Abs(w * ts - f * h) <= Abs(w * ts - c * h) THEN f ELSE c
         IN <<Max(x, 1), ts>>
    ELSE LET f == (ts * h) \div w
             c == Ceil(ts * h, w)
             y == IF f = 0 \/ Abs(w * f - ts * h) * c <= Abs(w * c - ts * h) * f
                  THEN f ELSE c
         IN <<ts, Max(y, 1)>>

\* render_page past load_page: the zoom, the pixmap, the thumbnail, the size
\* reported.
render_image(rect, quality) ==
    LET pix == get_pixmap(rect, zoom(quality))
        img == thumbnail(pix[1], pix[2], target_size(quality))
    IN [quality |-> quality, zoom |-> zoom(quality),
        target_size |-> target_size(quality),
        pix_width |-> pix[1], pix_height |-> pix[2],
        width |-> img[1], height |-> img[2]]

\* A requestPage event with these options is rendered for a page of this size.
request_page_renders(options, rect) ==
    /\ page_data' = [event |-> "requestPage", options |-> options,
                     image |-> render_image(rect, request_page_quality(options))]
    /\ UNCHANGED <<server_vars, saves, page_file>>

\* One page of a preloadPages event with these options is rendered.
preload_pages_renders(options, rect) ==
    /\ page_data' = [event |-> "preloadPages", options |-> options,
                     image |-> render_image(rect, preload_pages_quality(options))]
    /\ UNCHANGED <<server_vars, saves, page_file>>

NextRender ==
    \/ \E o \in Options, r \in PageRects : request_page_renders(o, r)
    \/ \E o \in Options, r \in PageRects : preload_pages_renders(o, r)

SpecRender == Init /\ [][NextRender]_vars

\* --------------------------------------- save_page_image: the file's bytes
\* The longest image_data, in bytes.
MaxBytes == 3

\* The save_page_image calls at work at once on page_{n}.png of one session
\* (handler threads of duplicate or overlapping requests).
Savers == {"t1", "t2"}

\* image_data of n bytes as call w rendered it.
ImageData(w, n) == [i \in 1..n |-> <<w, i>>]

\* f.write(image_data) on a file opened at offset 0: the bytes replace the
\* file's first Len(image_data) bytes, what lies beyond stays.
WriteAtStart(bytes, image_data) ==
    IF Len(bytes) <= Len(image_data) THEN image_data
    ELSE image_data \o SubSeq(bytes, Len(image_data) + 1, Len(bytes))

\* A call of save_page_image begins: session_dir.mkdir(exist_ok=True).
persist_mkdir(w, n) ==
    /\ w \notin DOMAIN saves
    /\ saves' = [v \in DOMAIN saves \cup {w} |->
                    IF v = w THEN [at |-> "open", image_data |-> ImageData(w, n)]
                    ELSE saves[v]]
    /\ UNCHANGED <<server_vars, page_data, page_file>>

\* open(filepath, 'wb'): the file is made, or cut to no bytes.
persist_open(w) ==
    /\ w \in DOMAIN saves
    /\ saves[w].at = "open"
    /\ page_file' = [exists |-> TRUE, bytes |-> <<>>]
    /\ saves' = [saves EXCEPT ![w].at = "write"]
    /\ UNCHANGED <<server_vars, page_data>>

\* f.write(image_data) and the close at the end of the with block: the bytes
\* reach the file.
persist_write(w) ==
    /\ w \in DOMAIN saves
    /\ saves[w].at = "write"
    /\ page_file' = [page_file EXCEPT !.bytes = WriteAtStart(@, saves[w].image_data)]
    /\ saves' = [saves EXCEPT ![w].at = "done"]
    /\ UNCHANGED <<server_vars, page_data>>

NextPersist ==
    \/ \E w \in Savers, n \in 1..MaxBytes : persist_mkdir(w, n)
    \/ \E w \in Savers : persist_open(w)
    \/ \E w \in Savers : persist_write(w)

SpecPersist == Init /\ [][NextPersist]_vars

\* ------------------------------------------------------------ the claims
\* The record of a live session, NoSession when the table has none under sid.
SessionOf(tab, sid) ==
    IF sid \in Sids(tab) THEN tab[IndexOf(tab, sid)] ELSE NoSession

Live(c) == conn[c] \in Sids(sessions)

\* The step just taken answered connection c's loadPDF, with success or failure.
LoadAnswered(st, c, success) ==
    st.emit.ev = "pdfLoaded" /\ st.emit.to = c /\ st.emit.success = success

\* The step just taken answered connection c with event ev.
Answered(st, c, ev) == st.emit.ev = ev /\ st.emit.to = c

IsError(e) == "error" \in DOMAIN e

\* C1. Session isolation: a successful loadPDF on connection c leaves the bound
\* document of every live session other than c's own as it was.
C1_SessionIsolation ==
    [][\A c \in Conns : LoadAnswered(step', c, TRUE) =>
          \A i \in 1..Len(sessions) :
              sessions[i].sid # conn[c] =>
                  SessionOf(sessions', sessions[i].sid).current_pdf
                      = sessions[i].current_pdf]_vars

\* C2. Load-document transition: when loadPDF on c is answered with success, c's
\* own session is bound to the loaded path and a requestPage that follows at once
\* finds a document (it is not answered 'No PDF loaded'); when it is answered
\* with failure, the binding of c's session is what it was.
C2_LoadTransition ==
    [][\A c \in Conns :
          /\ LoadAnswered(step', c, TRUE) =>
                /\ SessionOf(sessions', conn[c]).current_pdf = step'.emit.path
                /\ HasPdf(FirstSession(sessions'))
          /\ LoadAnswered(step', c, FALSE) =>
                SessionOf(sessions', conn[c]) = SessionOf(sessions, conn[c])]_vars

\* Connection c's own session never had a successful loadPDF: no connection that
\* holds c's token was answered success, and the session has no document.
NeverLoaded(c) ==
    /\ Live(c)
    /\ SessionOf(sessions, conn[c]).current_pdf = None
    /\ \A d \in Conns : conn[d] = conn[c] => d \notin loaded

\* C3. No-document guard: a requestPage or preloadPages on a connection whose own
\* session never had a successful loadPDF is answered 'No PDF loaded', and nothing
\* is rendered or saved for it.
C3_NoDocumentGuard ==
    \A c \in Conns : NeverLoaded(c) =>
        /\ pc[c].at # "save"
        /\ \A ev \in {"pageData", "pagesPreloaded"} : Answered(step, c, ev) =>
              IsError(step.emit) /\ step.emit.error = "No PDF loaded"

\* C4. Page-range validation in requestPage: with T the page count of the bound
\* document, render_page is invoked only for page numbers in 1..T, a pageData
\* answer carries page data only for those, and only their files are written.
C4_PageRangeValidated ==
    LET T == PageCount(FirstSession(sessions).current_pdf) IN
    /\ \A i \in 1..Len(step.render) : 1 <= step.render[i] /\ step.render[i] <= T
    /\ \A c \in Conns : pc[c].at = "save" => 1 <= pc[c].page_num /\ pc[c].page_num <= T
    /\ \A f \in files : 1 <= f[2]

\* C5. Activity refresh: once a loadPDF, requestPage, preloadPages or ping
\* received at time t is handled, the session's last_activity is >= t. (Stated
\* of the events received and answered in one step, where t is the clock at the
\* answer; that sessions kept active are never swept follows from it.)
C5_ActivityRefreshed ==
    [][\A c \in Conns :
          (/\ pc[c] = Idle
           /\ \E ev \in {"pdfLoaded", "pageData", "pagesPreloaded", "pong"} :
                 Answered(step', c, ev)
           /\ conn[c] \in Sids(sessions'))
          => SessionOf(sessions', conn[c]).last_activity >= now]_vars

\* C6. Sweep safety under interleaving: whenever a session record leaves the
\* table, or the directory of a live session is deleted, the sweep is running and
\* the record's stored last_activity is more than 30 minutes before the sweep's
\* clock reading, whatever connects and events were interleaved with the sweep.
C6_SweepSafety ==
    [][\A i \in 1..Len(sessions) :
          LET s == sessions[i] IN
          (s.sid \notin Sids(sessions') \/ (s.sid \in dirs /\ s.sid \notin dirs'))
          => /\ sweep.at \in {"rmtree", "del"}
             /\ sweep.current_time - s.last_activity > Timeout]_vars

\* C6's case: the sweep is about to delete the record of an expired session while
\* the table holds a session that is not in the sweep's list, created after the
\* sweep read the clock and listed the table.
C6_Witness ==
    /\ sweep.at = "del"
    /\ \E i \in 1..Len(sessions) :
          /\ \A j \in 1..Len(sweep.items) : sweep.items[j].sid # sessions[i].sid
          /\ sessions[i].last_activity >= sweep.current_time

\* The sweep's loop comes to its end in this step (no deletion raised).
SweepCompletes ==
    /\ sweep.at \in {"loop", "del"}
    /\ sweep.i = Len(sweep.items)
    /\ sweep'.at = "idle"

\* C7. Sweep completeness: when the sweep runs to completion with no deletion
\* failure, every session of its list whose last_activity is more than 30 minutes
\* before its clock reading has no record in the table and no page directory.
C7_SweepComplete ==
    [][SweepCompletes =>
          \A j \in 1..Len(sweep.items) :
              Expired(sweep.current_time, sweep.items[j].last_activity) =>
                  /\ sweep.items[j].sid \notin Sids(sessions')
                  /\ sweep.items[j].sid \notin dirs']_vars

\* C8. Sweep failure isolation: when deleting the directory of one expired
\* session fails, the sweep does not end while other expired sessions of its list
\* are still to be processed.
C8_FailureIsolated ==
    [][(sweep.at = "rmtree" /\ sweep'.at = "idle") =>
          \A j \in (sweep.i + 1)..Len(sweep.items) :
              ~Expired(sweep.current_time, sweep.items[j].last_activity)]_vars

\* C9. Single parse per path under concurrency: whatever the interleaving of the
\* load_pdf calls for a path, at most one of them opens and parses the file, so
\* that every call returns the one document handle.
C9_SingleParse ==
    /\ \A p \in Paths : opens[p] <= 1
    /\ \A c \in Conns : LoadAnswered(step, c, TRUE) =>
          step.emit.document = <<step.emit.path, 1>>

\* Every bound session's document is a key of pdf_cache.
BoundIsCached(tab, cache) ==
    \A i \in 1..Len(tab) : tab[i].current_pdf # None => Cached(cache, tab[i].current_pdf)

\* The bound document of every session, by table position.
Bindings(tab) == [i \in 1..Len(tab) |-> <<tab[i].sid, tab[i].current_pdf>>]

\* C10. Binding invariant: every session whose current_pdf is not None has a
\* current_pdf that is a key of pdf_cache, and a loadPDF that is answered with
\* failure sets or changes no session's current_pdf.
C10_BindingInvariant ==
    [][/\ BoundIsCached(sessions', pdf_cache')
       /\ \A c \in Conns : LoadAnswered(step', c, FALSE) =>
             Bindings(sessions') = Bindings(sessions)]_vars

\* C10's case: a loadPDF was just answered with failure after fitz.open raised,
\* while a session is bound to a document.
C10_Witness ==
    /\ \E c \in Conns : LoadAnswered(step, c, FALSE) /\ step.emit.error = "exception"
    /\ \E i \in 1..Len(sessions) : sessions[i].current_pdf # None

RECURSIVE ValidPages(_, _)
\* The subsequence of the page numbers n of q with 1 <= n <= T, in q's order,
\* every occurrence kept.
ValidPages(q, T) ==
    IF q = <<>> THEN <<>>
    ELSE (IF 1 <= Head(q) /\ Head(q) <= T THEN <<Head(q)>> ELSE <<>>)
             \o ValidPages(Tail(q), T)

\* C11. Preload filtering and order: when a preloadPages is answered with pages
\* (every render and save went through), the pages are exactly the subsequence of
\* pageNums within 1..T, T the page count of the bound document, in order and
\* with duplicates; exactly those were passed to render_page and only their files
\* were written, so a number out of range has no render, no file and no entry.
C11_PreloadFiltered ==
    [][\A c \in Conns :
          (Answered(step', c, "pagesPreloaded") /\ ~IsError(step'.emit)) =>
              LET s == FirstSession(sessions)
                  want == ValidPages(step'.emit.pageNums, PageCount(s.current_pdf))
              IN /\ step'.emit.pages = want
                 /\ step'.render = want
                 /\ files' = files \cup {<<s.sid, want[i]>> : i \in 1..Len(want)}
                 /\ dirs' \subseteq dirs \cup {s.sid}]_vars

\* C11's case: a list with numbers above and below the range and a page named
\* twice was answered with that page twice.
C11_Witness ==
    \E c \in Conns :
        /\ Answered(step, c, "pagesPreloaded")
        /\ ~IsError(step.emit)
        /\ step.emit.pageNums = <<4, 1, 0, 1>>
        /\ step.emit.pages = <<1, 1>>

\* C12. Reference stability: the file a successful pageData or pagesPreloaded
\* answer to connection c refers to lies under c's own session directory; a page
\* file is written for a session only by that session's connection, and it goes
\* away only when the sweep removes the directory of its session.
C12_ReferenceStability ==
    [][/\ \A c \in Conns :
             (/\ Answered(step', c, "pageData") \/ Answered(step', c, "pagesPreloaded")
              /\ ~IsError(step'.emit))
             => step'.emit.sid = conn[c]
       /\ \A c \in Conns :
             (pc[c].at = "save" /\ pc'[c] = Idle /\ <<pc[c].sid, pc[c].page_num>> \in files')
             => pc[c].sid = conn[c]
       /\ \A f \in files \ files' :
             sweep.at = "rmtree" /\ Item(sweep).sid = f[1]]_vars

\* C13. Exclusive deletion: a record leaves the session table only in the sweep's
\* del step, never in a step of a connection's handler; a disconnect leaves the
\* session table, the document cache and the page directories as they were.
C13_ExclusiveDeletion ==
    [][/\ (\E i \in 1..Len(sessions) : sessions[i].sid \notin Sids(sessions'))
          => (sweep.at = "del" /\ sweep' # sweep /\ conn' = conn /\ pc' = pc)
       /\ \A c \in Conns :
             (conn[c] # Closed /\ conn'[c] = Closed)
             => /\ sessions' = sessions
                /\ pdf_cache' = pdf_cache
                /\ dirs' = dirs
                /\ files' = files]_vars

\* C13's case: every connection has disconnected, and the table still holds a
\* record for each and a page directory exists.
C13_Witness ==
    /\ \A c \in Conns : conn[c] = Closed
    /\ Len(sessions) = Cardinality(Conns)
    /\ dirs # {}

\* C14. Session creation: a connect installs a record with no document and
\* last_activity = now under a token no live session has, leaves every record
\* that was in the table as it was, and the table grows by exactly one.
C14_SessionCreation ==
    [][\A c \in Conns :
          (conn[c] = None /\ conn'[c] # None) =>
              /\ conn'[c] \notin Sids(sessions)
              /\ Len(sessions') = Len(sessions) + 1
              /\ SubSeq(sessions', 1, Len(sessions)) = sessions
              /\ sessions'[Len(sessions')]
                    = [sid |-> conn'[c], current_pdf |-> None, last_activity |-> now]]_vars

\* The answer is a failure payload.
IsFailure(e) == IF e.ev = "pdfLoaded" THEN ~e.success ELSE IsError(e)

\* C15. Graceful failure: a handler that was at work on a loadPDF or requestPage
\* ends with the one response event of its kind and emits nothing before; an
\* event handled in one step is answered in that step; and when the answer to a
\* loadPDF, requestPage or preloadPages is an error, the session table and the
\* document cache are unchanged and the connection stands ready for its next
\* request, which the unchanged state serves as it would have before.
C15_GracefulFailure ==
    [][\A c \in Conns :
          /\ (pc[c] # Idle /\ pc'[c] = Idle) =>
                Answered(step', c, IF pc[c].at = "open" THEN "pdfLoaded" ELSE "pageData")
          /\ (pc[c] = Idle /\ pc'[c] # Idle) => step'.emit = NoEmit
          /\ (/\ \E ev \in {"pdfLoaded", "pageData", "pagesPreloaded"} :
                    Answered(step', c, ev)
              /\ IsFailure(step'.emit))
             => /\ sessions' = sessions
                /\ pdf_cache' = pdf_cache
                /\ pc'[c] = Idle
                /\ conn'[c] = conn[c]]_vars

\* C15's case: a requestPage for page 4 of the 3-page document went into
\* render_page and was answered with an error.
C15_Witness ==
    \E c \in Conns :
        /\ Answered(step, c, "pageData")
        /\ IsError(step.emit)
        /\ step.render = <<4>>
        /\ FirstSession(sessions).current_pdf = PathOf("sample")

\* C16. Cache hit idempotence: once a path is cached, it stays cached; its entry
\* is replaced, and its file opened, only by a load_pdf call that began before
\* the entry was there (one standing at fitz.open); and a loadPDF that begins
\* with the path cached answers with the cached handle and page count, opens
\* nothing and leaves pdf_cache as it was.
C16_CacheHitIdempotent ==
    [][\A p \in Paths : Cached(pdf_cache, p) =>
          /\ Cached(pdf_cache', p)
          /\ (pdf_cache'[p] # pdf_cache[p] \/ opens'[p] # opens[p]) =>
                \E c \in Conns : pc[c].at = "open" /\ pc[c].path = p /\ pc'[c] = Idle
          /\ \A c \in Conns :
                (pc[c] = Idle /\ LoadAnswered(step', c, TRUE) /\ step'.emit.path = p) =>
                    /\ step'.emit.document = pdf_cache[p].document
                    /\ step'.emit.totalPages = pdf_cache[p].total_pages
                    /\ pdf_cache' = pdf_cache
                    /\ opens' = opens]_vars

\* C16's case: both connections had their loadPDF answered with success and the
\* file was opened once: the answer just sent came from the cache.
C16_Witness ==
    /\ \E c \in Conns : LoadAnswered(step, c, TRUE)
    /\ loaded = Conns
    /\ opens[PathOf("sample")] = 1

\* C18. No orphaned artifacts: every page directory that exists belongs to a
\* session of the table, and no step makes a directory or a page file for a
\* session that is not in the table.
C18_NoOrphans ==
    [][/\ dirs' \subseteq Sids(sessions')
       /\ \A f \in files' : f[1] \in Sids(sessions')
       /\ dirs' \ dirs \subseteq Sids(sessions)
       /\ \A f \in files' \ files : f[1] \in Sids(sessions)]_vars

\* C17. Quality bounding box: the width and height render_page reports are both
\* <= 1024 when quality is 'high' and both <= 768 for any other quality, and
\* neither is larger than the pixmap's (the image is scaled down only).
C17_QualityBox ==
    page_data # NoPageData =>
        LET im == page_data.image
            box == IF im.quality = "high" THEN 1024 ELSE 768
        IN /\ im.width <= box
           /\ im.height <= box
           /\ im.width <= im.pix_width
           /\ im.height <= im.pix_height

\* C17's case: a pixmap wider than the box and lower than it was scaled down at
\* high quality.
C17_Witness ==
    /\ page_data # NoPageData
    /\ page_data.image.quality = "high"
    /\ page_data.image.pix_width > 1024
    /\ page_data.image.pix_height < 1024
    /\ page_data.image.width = 1024
    /\ page_data.image.height < page_data.image.pix_height

\* C19. Persist supersedes atomically: once the concurrent save_page_image calls
\* on one page file have all returned, the file holds the complete bytes of
\* exactly one of them.
C19_PersistAtomic ==
    (DOMAIN saves = Savers /\ \A w \in Savers : saves[w].at = "done") =>
        \E w \in Savers : page_file.bytes = saves[w].image_data

\* C20. Default quality tier: an event whose options carry no quality, or one
\* other than 'high', is rendered at zoom 1.5 for the 768 box; only an explicit
\* 'high' is rendered at zoom 2.0 for the 1024 box.
C20_DefaultTier ==
    page_data # NoPageData =>
        LET explicit_high == /\ "quality" \in DOMAIN page_data.options
                             /\ page_data.options.quality = "high"
        IN /\ page_data.image.zoom = IF explicit_high THEN 20 ELSE 15
           /\ page_data.image.target_size = IF explicit_high THEN 1024 ELSE 768
====
